---- MODULE Spec2Model ----
(***************************************************************************)
(* Model of src/bot.py: the Telegram "Mines calculator" bot.               *)
(*                                                                         *)
(* The process imports the module (environment read, start-up checks),     *)
(* runs main() (handler registration, polling) and then handles inbound    *)
(* updates.  Every handler is a coroutine whose only suspension points     *)
(* are its reply_text calls, so each action below is the code of one       *)
(* handler from one suspension point up to and including the next          *)
(* reply_text call and the exception handling its outcome triggers.        *)
(***************************************************************************)
EXTENDS Naturals, Sequences, FiniteSets

\* Number of updates the dispatcher receives in one run of the model.
MaxEvents == 3

\* Number of updates that can be in the dispatcher's hands at once.
MaxConcurrent == 2

Slots == 1..MaxConcurrent

VARIABLES
    BOT_TOKEN,      \* os.getenv('BOT_TOKEN')
    WEBAPP_URL,     \* os.getenv('WEBAPP_URL')
    phase,          \* "import", "exited", "loaded", "registered", "running"
    exitStatus,     \* argument of exit(), 0 while the process has not exited
    handlers,       \* command names registered with application.add_handler
    errorHandlers,  \* callbacks registered with application.add_error_handler
    polling,        \* TRUE once run_polling has contacted the transport
    startupLog,     \* log records written by the module-level code and main
    received,       \* number of updates received so far
    events          \* per update in hand: its fields and its handling so far

vars == << BOT_TOKEN, WEBAPP_URL, phase, exitStatus, handlers, errorHandlers,
           polling, startupLog, received, events >>

\* What no callback writes.
process == << BOT_TOKEN, WEBAPP_URL, phase, exitStatus, handlers, errorHandlers,
              polling, startupLog >>

-----------------------------------------------------------------------------
(* Environment values and urllib.parse.urlparse on them.                   *)

\* os.getenv returns None for a variable that is not set.
None == "<None>"

TokenSamples == { None, "", "123456:token" }

UrlSamples ==
    { "",
      "https://calc.example.com/mines",
      "http://calc.example.com/mines",
      "ftp://x",
      "not a url",
      "https://:443/mines",
      "https:///mines",
      "http://[::1" }

\* urlparse(url): raises ValueError on an unbalanced IPv6 bracket, otherwise
\* splits off the scheme and the network location; hostname is the part of
\* the network location that names the host ("" stands for None).
urlparse(url) ==
    CASE url = "https://calc.example.com/mines" ->
            [raises |-> FALSE, scheme |-> "https", netloc |-> "calc.example.com",
             hostname |-> "calc.example.com"]
      [] url = "http://calc.example.com/mines" ->
            [raises |-> FALSE, scheme |-> "http", netloc |-> "calc.example.com",
             hostname |-> "calc.example.com"]
      [] url = "ftp://x" ->
            [raises |-> FALSE, scheme |-> "ftp", netloc |-> "x", hostname |-> "x"]
      [] url = "https://:443/mines" ->
            [raises |-> FALSE, scheme |-> "https", netloc |-> ":443", hostname |-> ""]
      [] url = "https:///mines" ->
            [raises |-> FALSE, scheme |-> "https", netloc |-> "", hostname |-> ""]
      [] url = "http://[::1" ->
            [raises |-> TRUE, scheme |-> "", netloc |-> "", hostname |-> ""]
      [] OTHER ->
            [raises |-> FALSE, scheme |-> "", netloc |-> "", hostname |-> ""]

\* url.startswith('https://')
StartsWithHttps(url) ==
    url \in { "https://calc.example.com/mines", "https://:443/mines", "https:///mines" }

\* Python truthiness of a str-or-None value.
Truthy(s) == s # None /\ s # ""

validate_url(url) ==
    LET result == urlparse(url) IN
    IF result.raises
    THEN FALSE
    ELSE /\ Truthy(result.scheme)
         /\ Truthy(result.netloc)
         /\ result.scheme \in { "http", "https" }

-----------------------------------------------------------------------------
(* Log records: the level, the fixed part of the message and the values    *)
(* interpolated into it.                                                   *)

LogRecord(level, msg, fields) == [level |-> level, msg |-> msg, fields |-> fields]

-----------------------------------------------------------------------------
(* Buttons, keyboards and the replies the handlers send.                   *)

\* LinkButton with a URL written into the code in place of the configured one.
LinkButtonFixedUrl(label, u) ==
    [kind |-> "url", text |-> label, url |-> "https://calc.example.com/mines"]

LinkButton(label, u) == [kind |-> "url", text |-> label, url |-> u]

WebAppButton(label, u) == [kind |-> "web_app", text |-> label, url |-> u]

NoKeyboard == << >>

\* RichKeyboard with its rows in the other order.
RichKeyboardWebAppFirst(u) ==
    << << WebAppButton("Open as Web App", u) >>,
       << LinkButton("Open Mines Calculator", u) >> >>

\* The keyboard of the first attempt of mines_command.
RichKeyboard(u) ==
    << << LinkButton("Open Mines Calculator", u) >>,
       << WebAppButton("Open as Web App", u) >> >>

\* FallbackKeyboard as a copy of the first keyboard, web-app row included.
FallbackKeyboardWithWebApp(u) ==
    << << LinkButton("Open Mines Calculator", u) >>,
       << WebAppButton("Open as Web App", u) >> >>

\* The keyboard of the BadRequest fallback of mines_command.
FallbackKeyboard(u) ==
    << << LinkButton("Open Mines Calculator", u) >> >>

\* SimpleKeyboard with a web-app button in place of the link button.
SimpleKeyboardWithWebApp(u) ==
    << << WebAppButton("Open Mines Calculator", u) >> >>

\* The keyboard of mines_simple_command.
SimpleKeyboard(u) ==
    << << LinkButton("Open Mines Calculator", u) >> >>

\* A reply: the fixed text (named), the value interpolated into it ("" when
\* the text is a plain literal), the keyboard and the parse mode.
Reply(text, embedded, keyboard, mode) ==
    [text |-> text, embedded |-> embedded, keyboard |-> keyboard, parse_mode |-> mode]

RichReply(u) == Reply("calculator-intro-choose", "", RichKeyboard(u), "Markdown")

FallbackReply(u) == Reply("calculator-intro-click", "", FallbackKeyboard(u), "Markdown")

SimpleReply(u) == Reply("calculator-intro-click", "", SimpleKeyboard(u), "Markdown")

UrlTextReply(u) == Reply("open-the-calculator-at", u, NoKeyboard, "Markdown")

\* UnexpectedErrorReply with the caught exception formatted into the text.
UnexpectedErrorReplyWithError ==
    Reply("An unexpected error occurred. Please try again later.", "<error>",
          NoKeyboard, "")

UnexpectedErrorReply ==
    Reply("An unexpected error occurred. Please try again later.", "", NoKeyboard, "")

WelcomeReply == Reply("welcome", "", NoKeyboard, "")

HelpReply == Reply("help", "", NoKeyboard, "Markdown")

SorryReply ==
    Reply("Sorry, an error occurred while processing your request. Please try again later.",
          "", NoKeyboard, "")

-----------------------------------------------------------------------------
(* Exceptions.                                                             *)

\* What awaiting update.message.reply_text can end in: the transport accepts
\* the message, refuses it (telegram.error.BadRequest) or fails otherwise.
TransportOutcomes == { "ok", "BadRequest", "OtherError" }

\* update.message is None for an update without a message: the attribute
\* access raises before anything is sent.
SendOutcomes(ev) ==
    IF ev.hasMessage THEN TransportOutcomes ELSE { "AttributeError" }

\* Catches with every clause catching every exception.
CatchesAnything(clause, exc) == TRUE

\* Whether an "except <clause>" catches an exception of class exc.
Catches(clause, exc) ==
    CASE clause = "BadRequest" -> exc = "BadRequest"
      [] clause = "Exception"  -> TRUE
      [] OTHER -> FALSE

-----------------------------------------------------------------------------
(* Updates.                                                                *)

Commands == { "start", "mines", "mines_simple", "help" }

IdleEvent ==
    [cmd |-> "", isUpdate |-> FALSE, hasMessage |-> FALSE, hasUser |-> FALSE,
     pc |-> "idle", attempts |-> << >>, log |-> << >>, raised |-> {} ]

\* The send attempts of event e so far, with the callback that made each.
Attempt(by, reply, outcome) ==
    [by |-> by, text |-> reply.text, embedded |-> reply.embedded,
     keyboard |-> reply.keyboard, parse_mode |-> reply.parse_mode, outcome |-> outcome]

\* The attempts after "await update.message.reply_text(reply)" ended in o.
Sent(ev, by, reply, o) ==
    IF ev.hasMessage THEN Append(ev.attempts, Attempt(by, reply, o)) ELSE ev.attempts

-----------------------------------------------------------------------------
Init ==
    /\ BOT_TOKEN \in TokenSamples
    /\ WEBAPP_URL \in UrlSamples \cup { None }
    /\ phase = "import"
    /\ exitStatus = 0
    /\ handlers = {}
    /\ errorHandlers = {}
    /\ polling = FALSE
    /\ startupLog = << >>
    /\ received = 0
    /\ events = [i \in Slots |-> IdleEvent]

-----------------------------------------------------------------------------
(* Start-up: the module-level code of bot.py, then main().                 *)

\* StartupError without the validate_url check.
StartupErrorUnvalidated(token, url) ==
    IF ~Truthy(token) THEN "BOT_TOKEN environment variable is not set!"
    ELSE IF ~Truthy(url) THEN "WEBAPP_URL environment variable is not set!"
    ELSE ""

\* The module-level checks: the message of the first check that fails, ""
\* when none does.
StartupError(token, url) ==
    IF ~Truthy(token) THEN "BOT_TOKEN environment variable is not set!"
    ELSE IF ~Truthy(url) THEN "WEBAPP_URL environment variable is not set!"
    ELSE IF ~validate_url(url) THEN "WEBAPP_URL is not a valid URL"
    ELSE ""

\* Importing the module: exit(1) on the first failing check, otherwise the
\* HTTPS warning (when it applies) and the start-up message.
ModuleStartup ==
    /\ phase = "import"
    /\ LET err == StartupError(BOT_TOKEN, WEBAPP_URL) IN
       IF err # ""
       THEN /\ startupLog' = Append(startupLog, LogRecord("error", err, {}))
            /\ exitStatus' = 1
            /\ phase' = "exited"
       ELSE /\ startupLog' =
                  (IF StartsWithHttps(WEBAPP_URL)
                   THEN startupLog
                   ELSE Append(startupLog,
                               LogRecord("warning",
                                         "WebApp URL should use HTTPS for production",
                                         {"url"})))
                  \o << LogRecord("info", "Bot starting with WebApp URL", {"url"}) >>
            /\ exitStatus' = 0
            /\ phase' = "loaded"
    /\ UNCHANGED << BOT_TOKEN, WEBAPP_URL, handlers, errorHandlers, polling,
                    received, events >>

\* main_register without the add_error_handler call.
main_register_without_error_handler ==
    /\ phase = "loaded"
    /\ handlers' = { "start", "mines", "mines_simple", "help" }
    /\ errorHandlers' = {}
    /\ startupLog' = Append(startupLog, LogRecord("info", "Starting bot...", {}))
    /\ phase' = "registered"
    /\ UNCHANGED << BOT_TOKEN, WEBAPP_URL, exitStatus, polling, received, events >>

\* main(), up to the call of run_polling: the application is built and the
\* four command handlers and the error handler are registered.
main_register ==
    /\ phase = "loaded"
    /\ handlers' = { "start", "mines", "mines_simple", "help" }
    /\ errorHandlers' = { "error_handler" }
    /\ startupLog' = Append(startupLog, LogRecord("info", "Starting bot...", {}))
    /\ phase' = "registered"
    /\ UNCHANGED << BOT_TOKEN, WEBAPP_URL, exitStatus, polling, received, events >>

\* application.run_polling: the long-lived connection to the transport.
main_run_polling ==
    /\ phase = "registered"
    /\ polling' = TRUE
    /\ phase' = "running"
    /\ UNCHANGED << BOT_TOKEN, WEBAPP_URL, exitStatus, handlers, errorHandlers,
                    startupLog, received, events >>

-----------------------------------------------------------------------------------------------------------------------------------------------------
(* The dispatcher.  The application is built with the builder's defaults   *)
(* (line 181), so an update is taken from the queue only when the handling *)
(* of the one before it has ended.                                         *)

EntryPoint(cmd) ==
    CASE cmd = "mines"        -> "mines:try"
      [] cmd = "mines_simple" -> "mines_simple:try"
      [] cmd = "start"        -> "start"
      [] cmd = "help"         -> "help"

\* The dispatcher can take the next update into slot i.
CanTake(i) ==
    /\ phase = "running"
    /\ received < MaxEvents
    /\ \A j \in Slots : events[j].pc = "idle"
    /\ i = 1

\* A command update reaches its CommandHandler.  The update carries a
\* message or not (an edited message), and an effective user or not.
TakeCommand(i) ==
    /\ \E cmd \in handlers, hasMessage \in BOOLEAN, hasUser \in BOOLEAN :
          /\ hasMessage \/ hasUser
          /\ events' = [events EXCEPT ![i] =
                           [IdleEvent EXCEPT !.cmd = cmd, !.isUpdate = TRUE,
                                             !.hasMessage = hasMessage,
                                             !.hasUser = hasUser,
                                             !.pc = EntryPoint(cmd)]]
    /\ received' = received + 1
    /\ UNCHANGED process

\* A fault outside every command handler: the dispatcher goes straight to
\* its error callbacks, with an update object or with something else.
TakeFault(i) ==
    /\ \E isUpdate \in BOOLEAN, hasMessage \in BOOLEAN :
          /\ hasMessage => isUpdate
          /\ events' = [events EXCEPT ![i] =
                           [IdleEvent EXCEPT !.cmd = "", !.isUpdate = isUpdate,
                                             !.hasMessage = hasMessage,
                                             !.hasUser = hasMessage,
                                             !.pc = "dispatcher:error",
                                             !.raised = { "dispatcher" }]]
    /\ received' = received + 1
    /\ UNCHANGED process

Receive(i) == CanTake(i) /\ TakeCommand(i)

DispatchFault(i) == CanTake(i) /\ TakeFault(i)

\* The handling of the update in slot i has ended: the update is dropped.
Discard(i) ==
    /\ phase = "running"
    /\ events[i].pc = "done"
    /\ events' = [events EXCEPT ![i] = IdleEvent]
    /\ UNCHANGED << process, received >>

\* The handling of the update in slot i is at `at`, about to call reply_text.
At(i, at) ==
    /\ phase = "running"
    /\ events[i].pc = at

Logged(ev, level, msg, fields) == Append(ev.log, LogRecord(level, msg, fields))

\* An exception leaves callback `by`: the dispatcher takes it over.
Propagate(ev, by) == [ev EXCEPT !.pc = "dispatcher:error", !.raised = @ \cup { by }]

\* Callback `by` returns normally.
Return(ev) == [ev EXCEPT !.pc = "done"]

-----------------------------------------------------------------------------
(* mines_command                                                           *)

\* Lines 48-74 and the except clauses they lead to: the two-row reply is
\* sent; on success the user id is logged (an AttributeError when the update
\* has no effective user, raised inside the try block).
mines_try(ev, o) ==
    LET sent == [ev EXCEPT !.attempts = Sent(ev, "mines_command", RichReply(WEBAPP_URL), o)]
        exc  == IF o = "ok" THEN (IF ev.hasUser THEN "" ELSE "AttributeError") ELSE o
    IN  IF exc = ""
        THEN Return([sent EXCEPT !.log =
                        Logged(ev, "info", "Mines command executed for user", {"user_id"})])
        ELSE IF Catches("BadRequest", exc)
        THEN [sent EXCEPT !.pc = "mines:except BadRequest",
                          !.log = Logged(ev, "error", "BadRequest error in mines_command",
                                         {"error"})]
        ELSE IF Catches("Exception", exc)
        THEN [sent EXCEPT !.pc = "mines:except Exception",
                          !.log = Logged(ev, "error", "Unexpected error in mines_command",
                                         {"error"})]
        ELSE Propagate(sent, "mines_command")

\* Lines 79-96: the single-row reply; any exception leads to the inner
\* except clause.
mines_fallback(ev, o) ==
    LET sent == [ev EXCEPT !.attempts =
                    Sent(ev, "mines_command", FallbackReply(WEBAPP_URL), o)]
    IN  IF o = "ok"
        THEN Return(sent)
        ELSE IF Catches("Exception", o)
        THEN [sent EXCEPT !.pc = "mines:except fallback_error",
                          !.log = Logged(ev, "error", "Fallback also failed", {"error"})]
        ELSE Propagate(sent, "mines_command")

\* Lines 97-101: the reply with the URL as text, sent from inside an except
\* clause; nothing encloses it.
mines_text(ev, o) ==
    LET sent == [ev EXCEPT !.attempts =
                    Sent(ev, "mines_command", UrlTextReply(WEBAPP_URL), o)]
    IN  IF o = "ok" THEN Return(sent) ELSE Propagate(sent, "mines_command")

\* mines_unexpected sending the two-row reply once more in place of the
\* apology.
mines_unexpected_retrying_rich(ev, o) ==
    LET sent == [ev EXCEPT !.attempts =
                    Sent(ev, "mines_command", RichReply(WEBAPP_URL), o)]
    IN  IF o = "ok" THEN Return(sent) ELSE Propagate(sent, "mines_command")

\* Lines 104-106: the apology, sent from inside the outer except clause;
\* nothing encloses it.
mines_unexpected(ev, o) ==
    LET sent == [ev EXCEPT !.attempts =
                    Sent(ev, "mines_command", UnexpectedErrorReply, o)]
    IN  IF o = "ok" THEN Return(sent) ELSE Propagate(sent, "mines_command")

mines_command_try(i) ==
    /\ At(i, "mines:try")
    /\ \E o \in SendOutcomes(events[i]) :
          events' = [events EXCEPT ![i] = mines_try(events[i], o)]
    /\ UNCHANGED << process, received >>

\* mines_command_fallback assigning to the module-level WEBAPP_URL (a
\* "global WEBAPP_URL" that downgrades the URL for the fallback).
mines_command_fallback_writing_global(i) ==
    /\ At(i, "mines:except BadRequest")
    /\ \E o \in SendOutcomes(events[i]) :
          events' = [events EXCEPT ![i] = mines_fallback(events[i], o)]
    /\ WEBAPP_URL' = "http://calc.example.com/mines"
    /\ UNCHANGED << BOT_TOKEN, phase, exitStatus, handlers, errorHandlers,
                    polling, startupLog, received >>

mines_command_fallback(i) ==
    /\ At(i, "mines:except BadRequest")
    /\ \E o \in SendOutcomes(events[i]) :
          events' = [events EXCEPT ![i] = mines_fallback(events[i], o)]
    /\ UNCHANGED << process, received >>

mines_command_text(i) ==
    /\ At(i, "mines:except fallback_error")
    /\ \E o \in SendOutcomes(events[i]) :
          events' = [events EXCEPT ![i] = mines_text(events[i], o)]
    /\ UNCHANGED << process, received >>

mines_command_unexpected(i) ==
    /\ At(i, "mines:except Exception")
    /\ \E o \in SendOutcomes(events[i]) :
          events' = [events EXCEPT ![i] = mines_unexpected(events[i], o)]
    /\ UNCHANGED << process, received >>

-----------------------------------------------------------------------------
(* mines_simple_command                                                    *)

\* mines_simple_try with "except BadRequest" in place of "except Exception".
mines_simple_try_catching_bad_request(ev, o) ==
    LET sent == [ev EXCEPT !.attempts =
                    Sent(ev, "mines_simple_command", SimpleReply(WEBAPP_URL), o)]
        exc  == IF o = "ok" THEN (IF ev.hasUser THEN "" ELSE "AttributeError") ELSE o
    IN  IF exc = ""
        THEN Return([sent EXCEPT !.log =
                        Logged(ev, "info", "Mines simple command executed for user",
                               {"user_id"})])
        ELSE IF Catches("BadRequest", exc)
        THEN [sent EXCEPT !.pc = "mines_simple:except Exception",
                          !.log = Logged(ev, "error", "Error in mines_simple_command",
                                         {"error"})]
        ELSE Propagate(sent, "mines_simple_command")

\* Lines 110-129: the single-row reply, then the user id is logged.
mines_simple_try(ev, o) ==
    LET sent == [ev EXCEPT !.attempts =
                    Sent(ev, "mines_simple_command", SimpleReply(WEBAPP_URL), o)]
        exc  == IF o = "ok" THEN (IF ev.hasUser THEN "" ELSE "AttributeError") ELSE o
    IN  IF exc = ""
        THEN Return([sent EXCEPT !.log =
                        Logged(ev, "info", "Mines simple command executed for user",
                               {"user_id"})])
        ELSE IF Catches("Exception", exc)
        THEN [sent EXCEPT !.pc = "mines_simple:except Exception",
                          !.log = Logged(ev, "error", "Error in mines_simple_command",
                                         {"error"})]
        ELSE Propagate(sent, "mines_simple_command")

\* Lines 130-134: the reply with the URL as text; nothing encloses it.
mines_simple_text(ev, o) ==
    LET sent == [ev EXCEPT !.attempts =
                    Sent(ev, "mines_simple_command", UrlTextReply(WEBAPP_URL), o)]
    IN  IF o = "ok" THEN Return(sent) ELSE Propagate(sent, "mines_simple_command")

mines_simple_command_try(i) ==
    /\ At(i, "mines_simple:try")
    /\ \E o \in SendOutcomes(events[i]) :
          events' = [events EXCEPT ![i] = mines_simple_try(events[i], o)]
    /\ UNCHANGED << process, received >>

mines_simple_command_text(i) ==
    /\ At(i, "mines_simple:except Exception")
    /\ \E o \in SendOutcomes(events[i]) :
          events' = [events EXCEPT ![i] = mines_simple_text(events[i], o)]
    /\ UNCHANGED << process, received >>

-----------------------------------------------------------------------------
(* start_command, help_command                                             *)

start_reply(ev, o) ==
    LET sent == [ev EXCEPT !.attempts = Sent(ev, "start_command", WelcomeReply, o)]
    IN  IF o = "ok" THEN Return(sent) ELSE Propagate(sent, "start_command")

help_reply(ev, o) ==
    LET sent == [ev EXCEPT !.attempts = Sent(ev, "help_command", HelpReply, o)]
    IN  IF o = "ok" THEN Return(sent) ELSE Propagate(sent, "help_command")

start_command(i) ==
    /\ At(i, "start")
    /\ \E o \in SendOutcomes(events[i]) :
          events' = [events EXCEPT ![i] = start_reply(events[i], o)]
    /\ UNCHANGED << process, received >>

help_command(i) ==
    /\ At(i, "help")
    /\ \E o \in SendOutcomes(events[i]) :
          events' = [events EXCEPT ![i] = help_reply(events[i], o)]
    /\ UNCHANGED << process, received >>

-----------------------------------------------------------------------------
(* error_handler: called by the dispatcher with the update whose handling  *)
(* raised.                                                                 *)

\* Line 170: isinstance(update, Update) and update.message
HasMessage(ev) == ev.isUpdate /\ ev.hasMessage

\* error_reply without the try block around the apology.
error_reply_unguarded(ev, o) ==
    LET logged == [ev EXCEPT !.log = Logged(ev, "error",
                                            "Exception while handling an update",
                                            {"error"})]
        sent   == [logged EXCEPT !.attempts = Sent(ev, "error_handler", SorryReply, o)]
    IN  IF o = "ok"
        THEN Return(sent)
        ELSE [sent EXCEPT !.pc = "done", !.raised = @ \cup { "error_handler" }]

\* Lines 167-176 when the apology is attempted and ends in o.
error_reply(ev, o) ==
    LET logged == [ev EXCEPT !.log = Logged(ev, "error",
                                            "Exception while handling an update",
                                            {"error"})]
        sent   == [logged EXCEPT !.attempts = Sent(ev, "error_handler", SorryReply, o)]
    IN  IF o = "ok"
        THEN Return(sent)
        ELSE IF Catches("Exception", o)
        THEN Return([sent EXCEPT !.log = Logged(logged, "error",
                                                "Failed to send error message",
                                                {"error"})])
        ELSE [sent EXCEPT !.pc = "done", !.raised = @ \cup { "error_handler" }]

\* Lines 167-170 when no apology is attempted.
error_logged(ev) ==
    Return([ev EXCEPT !.log = Logged(ev, "error", "Exception while handling an update",
                                     {"error"})])

error_handler(i) ==
    /\ At(i, "dispatcher:error")
    /\ "error_handler" \in errorHandlers
    /\ IF HasMessage(events[i])
       THEN \E o \in TransportOutcomes :
               events' = [events EXCEPT ![i] = error_reply(events[i], o)]
       ELSE events' = [events EXCEPT ![i] = error_logged(events[i])]
    /\ UNCHANGED << process, received >>

-----------------------------------------------------------------------------
Next ==
    \/ ModuleStartup
    \/ main_register
    \/ main_run_polling
    \/ \E i \in Slots : Receive(i)
    \/ \E i \in Slots : DispatchFault(i)
    \/ \E i \in Slots : mines_command_try(i)
    \/ \E i \in Slots : mines_command_fallback(i)
    \/ \E i \in Slots : mines_command_text(i)
    \/ \E i \in Slots : mines_command_unexpected(i)
    \/ \E i \in Slots : mines_simple_command_try(i)
    \/ \E i \in Slots : mines_simple_command_text(i)
    \/ \E i \in Slots : start_command(i)
    \/ \E i \in Slots : help_command(i)
    \/ \E i \in Slots : error_handler(i)
    \/ \E i \in Slots : Discard(i)

Spec == Init /\ [][Next]_vars

-----------------------------------------------------------------------------
(* The same application when the host runtime handles two updates at once: *)
(* an update is taken while one other is still being handled, into the     *)
(* first free slot.                                                        *)

CanTakeConcurrently(i) ==
    /\ phase = "running"
    /\ received < MaxEvents
    /\ events[i].pc = "idle"
    /\ Cardinality({ j \in Slots : events[j].pc # "idle" }) = 1
    /\ \A j \in Slots : j < i => events[j].pc # "idle"

ReceiveConcurrently(i) == CanTakeConcurrently(i) /\ TakeCommand(i)

DispatchFaultConcurrently(i) == CanTakeConcurrently(i) /\ TakeFault(i)

NextConcurrent ==
    \/ Next
    \/ \E i \in Slots : ReceiveConcurrently(i)
    \/ \E i \in Slots : DispatchFaultConcurrently(i)

SpecConcurrent == Init /\ [][NextConcurrent]_vars

-----------------------------------------------------------------------------
(* Vocabulary of the properties.                                           *)

\* The updates in the dispatcher's hands.
InHand == { i \in Slots : events[i].pc # "idle" }

Ended(ev) == ev.pc = "done"

\* The send attempts of an update that callback `by` made.
AttemptsBy(ev, by) == SelectSeq(ev.attempts, LAMBDA a : a.by = by)

ButtonsOf(a) ==
    UNION { { a.keyboard[r][c] : c \in DOMAIN a.keyboard[r] } : r \in DOMAIN a.keyboard }

HasWebAppButton(a) == \E b \in ButtonsOf(a) : b.kind = "web_app"

\* One row holding one link button.
IsLinkOnly(a) ==
    /\ Len(a.keyboard) = 1
    /\ Len(a.keyboard[1]) = 1
    /\ a.keyboard[1][1].kind = "url"

\* No buttons, the configured URL in the text.
IsUrlText(a) ==
    /\ a.keyboard = << >>
    /\ a.text = "open-the-calculator-at"
    /\ a.embedded = WEBAPP_URL

Failed(a) == a.outcome # "ok"

\* A /mines update that carried a message, so that its replies reach the
\* transport.
RichEvent(ev) == ev.cmd = "mines" /\ ev.hasMessage

-----------------------------------------------------------------------------
(* C1 - C4: the fallback chain of mines_command.                           *)

\* C1: whatever the transport answers to the send attempts of a /mines
\* update, no exception leaves mines_command for the dispatcher.
C1_NoExceptionLeavesMinesCommand ==
    \A i \in Slots :
        RichEvent(events[i]) => "mines_command" \notin events[i].raised

\* C2 as stated: after a BadRequest on the first attempt the update ends with
\* exactly one more attempt, the single link row, and nothing delivered
\* carries a web-app button.
C2_ExactlyOneLinkOnlyAttemptAfterRejection ==
    \A i \in Slots :
        LET ev == events[i] IN
        (/\ RichEvent(ev) /\ Ended(ev)
         /\ Len(ev.attempts) >= 1 /\ ev.attempts[1].outcome = "BadRequest")
        => /\ Len(ev.attempts) = 2
           /\ IsLinkOnly(ev.attempts[2])
           /\ \A k \in DOMAIN ev.attempts :
                 ev.attempts[k].outcome = "ok" => ~HasWebAppButton(ev.attempts[k])

\* C2 amended: after a BadRequest on the first attempt the next attempt is
\* the single link row; when the transport accepts it, it is the only
\* further attempt of the update; and in every case nothing delivered
\* carries a web-app button.
C2_LinkOnlyAttemptFollowsRejection ==
    \A i \in Slots :
        LET ev == events[i] IN
        (/\ RichEvent(ev)
         /\ Len(ev.attempts) >= 1 /\ ev.attempts[1].outcome = "BadRequest")
        => /\ ev.pc # "mines:except BadRequest" =>
                 /\ Len(ev.attempts) >= 2
                 /\ ev.attempts[2].by = "mines_command"
                 /\ IsLinkOnly(ev.attempts[2])
           /\ (Len(ev.attempts) >= 2 /\ ev.attempts[2].outcome = "ok") =>
                 /\ Ended(ev)
                 /\ Len(ev.attempts) = 2
                 /\ ev.raised = {}
           /\ \A k \in DOMAIN ev.attempts :
                 ev.attempts[k].outcome = "ok" => ~HasWebAppButton(ev.attempts[k])

\* A /mines update that ended with the rejected two-row reply followed by
\* the delivered single link row.
C2_Witness ==
    \E i \in Slots :
        LET ev == events[i] IN
        /\ RichEvent(ev) /\ Ended(ev)
        /\ Len(ev.attempts) = 2
        /\ ev.attempts[1].outcome = "BadRequest"
        /\ HasWebAppButton(ev.attempts[1])
        /\ ev.attempts[2].outcome = "ok"

\* C3: when the first attempt ends in BadRequest and the single-row attempt
\* fails too, the update ends with exactly one more attempt, the reply
\* without buttons that has the configured URL in its text.
C3_ExactlyOneUrlTextAttemptAfterTwoFailures ==
    \A i \in Slots :
        LET ev == events[i] IN
        (/\ RichEvent(ev) /\ Ended(ev)
         /\ Len(ev.attempts) >= 2
         /\ ev.attempts[1].outcome = "BadRequest"
         /\ Failed(ev.attempts[2]))
        => /\ Len(ev.attempts) = 3
           /\ IsUrlText(ev.attempts[3])

\* C4: a /mines update causes at most three send attempts, and a failure of
\* the third ends its handling with nothing but a log record.
C4_AtMostThreeAttemptsPerRichEvent ==
    \A i \in Slots :
        LET ev == events[i] IN
        RichEvent(ev) =>
            /\ Len(ev.attempts) <= 3
            /\ (Len(ev.attempts) = 3 /\ Failed(ev.attempts[3])) =>
                  /\ Ended(ev)
                  /\ ev.raised = {}

\* A /mines update whose third attempt, the URL as text, failed as well.
C4_ThirdAttemptFailed ==
    \E i \in Slots :
        LET ev == events[i] IN
        /\ RichEvent(ev)
        /\ Len(ev.attempts) >= 3
        /\ IsUrlText(ev.attempts[3]) /\ Failed(ev.attempts[3])

-----------------------------------------------------------------------------
(* C5 - C8: what the replies carry.                                        *)

\* C5: a two-row reply that the transport accepted as the first attempt of
\* a /mines update has exactly two rows, the link button alone in the first
\* and the web-app button alone in the second, both with the configured URL.
C5_DeliveredRichReplyShape ==
    \A i \in Slots :
        LET ev == events[i] IN
        (/\ RichEvent(ev)
         /\ Len(ev.attempts) >= 1 /\ ev.attempts[1].outcome = "ok")
        => LET kb == ev.attempts[1].keyboard IN
           /\ Len(kb) = 2
           /\ Len(kb[1]) = 1 /\ kb[1][1].kind = "url"
           /\ Len(kb[2]) = 1 /\ kb[2][1].kind = "web_app"
           /\ kb[1][1].url = WEBAPP_URL
           /\ kb[2][1].url = kb[1][1].url

C5_Witness ==
    \E i \in Slots :
        LET ev == events[i] IN
        /\ RichEvent(ev) /\ Ended(ev)
        /\ Len(ev.attempts) = 1 /\ ev.attempts[1].outcome = "ok"
        /\ ev.attempts[1].by = "mines_command"

\* C6: when the first attempt of a /mines update fails with anything but a
\* BadRequest, mines_command makes exactly one more attempt, the button-less
\* "unexpected error" apology, and neither the single link row nor the URL
\* as text is attempted for that update.
C6_UnexpectedFailureSkipsTheChain ==
    \A i \in Slots :
        LET ev == events[i]
            own == AttemptsBy(ev, "mines_command")
        IN
        (/\ RichEvent(ev)
         /\ Len(ev.attempts) >= 1 /\ ev.attempts[1].outcome = "OtherError")
        => /\ Len(own) <= 2
           /\ ev.pc # "mines:except Exception" =>
                 /\ Len(own) = 2
                 /\ own[2] = ev.attempts[2]
                 /\ own[2].keyboard = << >>
                 /\ own[2].text = "An unexpected error occurred. Please try again later."
                 /\ own[2].embedded = ""
           /\ \A k \in DOMAIN ev.attempts :
                 /\ k > 1 => ev.attempts[k].keyboard = << >>
                 /\ ~IsUrlText(ev.attempts[k])
                 /\ ev.attempts[k].text # "calculator-intro-click"

C6_Witness ==
    \E i \in Slots :
        LET ev == events[i] IN
        /\ RichEvent(ev) /\ Ended(ev)
        /\ Len(ev.attempts) >= 2
        /\ ev.attempts[1].outcome = "OtherError"
        /\ ev.attempts[2].by = "mines_command"

\* C7: no send attempt made for a /mines_simple update carries a web-app
\* button, whatever the transport answers.
C7_SimpleCommandNeverSendsWebApp ==
    \A i \in Slots :
        events[i].cmd = "mines_simple" =>
            \A k \in DOMAIN events[i].attempts :
                ~HasWebAppButton(events[i].attempts[k])

C7_Witness ==
    \E i \in Slots :
        LET ev == events[i] IN
        /\ ev.cmd = "mines_simple" /\ Ended(ev)
        /\ Len(ev.attempts) >= 2
        /\ IsLinkOnly(ev.attempts[1])
        /\ Failed(ev.attempts[1])

\* C8: every button of every send attempt has as its url the configured
\* URL, which passed the start-up validation.
C8_EveryButtonCarriesTheValidatedUrl ==
    \A i \in Slots :
        \A k \in DOMAIN events[i].attempts :
            \A b \in ButtonsOf(events[i].attempts[k]) :
                /\ b.url = WEBAPP_URL
                /\ Truthy(WEBAPP_URL)
                /\ validate_url(WEBAPP_URL)

\* Both kinds of button have been sent, with a URL that is not the https one.
C8_Witness ==
    /\ ~StartsWithHttps(WEBAPP_URL)
    /\ \E i \in Slots :
          \E k \in DOMAIN events[i].attempts :
              \E b, c \in ButtonsOf(events[i].attempts[k]) :
                  b.kind = "url" /\ c.kind = "web_app"

-----------------------------------------------------------------------------
(* C9: error_handler.                                                      *)

C9_WitnessNoMessage ==
    \E i \in Slots :
        /\ Ended(events[i]) /\ events[i].raised = { "dispatcher" }
        /\ ~events[i].hasMessage

-----------------------------------------------------------------------------
(* C10: start-up.                                                          *)

ConfigurationRefused ==
    \/ ~Truthy(BOT_TOKEN)
    \/ ~Truthy(WEBAPP_URL)
    \/ ~validate_url(WEBAPP_URL)

\* C10: with the token missing, or the URL missing or not valid, the
\* process exits with a non-zero status with no handler registered and no
\* call made to the transport; handlers are registered only with both values
\* non-empty and the URL valid.
C10_RefusedConfigurationNeverStarts ==
    /\ ConfigurationRefused =>
          /\ phase \in { "import", "exited" }
          /\ phase = "exited" => exitStatus # 0
          /\ handlers = {} /\ errorHandlers = {}
          /\ ~polling
          /\ received = 0
          /\ \A i \in Slots : events[i].attempts = << >>
    /\ (handlers # {} \/ errorHandlers # {} \/ polling) =>
          /\ Truthy(BOT_TOKEN)
          /\ Truthy(WEBAPP_URL)
          /\ validate_url(WEBAPP_URL)
          /\ exitStatus = 0

\* The process has exited on a URL that is set but not valid.
C10_Witness ==
    /\ phase = "exited" /\ exitStatus = 1
    /\ Truthy(BOT_TOKEN) /\ Truthy(WEBAPP_URL)
    /\ ~validate_url(WEBAPP_URL)

-----------------------------------------------------------------------------
(* C11: validate_url, as the module-level code applies it to WEBAPP_URL.   *)

\* The URL parses, its scheme is http or https and it names a host.
ParsesWithHttpSchemeAndHost(u) ==
    LET result == urlparse(u) IN
    /\ ~result.raises
    /\ result.scheme # ""
    /\ result.scheme \in { "http", "https" }
    /\ result.hostname # ""

\* C11: validate_url(u) is true exactly when u parses with a scheme that is
\* http or https and with a non-empty host; a parse failure gives false.
\* Once the module-level checks have run with a token, the process has gone
\* on exactly for such a URL.
C11_ValidateIffHttpSchemeAndHost ==
    (phase # "import" /\ Truthy(BOT_TOKEN) /\ Truthy(WEBAPP_URL)) =>
        /\ validate_url(WEBAPP_URL) <=> ParsesWithHttpSchemeAndHost(WEBAPP_URL)
        /\ phase # "exited" <=> ParsesWithHttpSchemeAndHost(WEBAPP_URL)

-----------------------------------------------------------------------------
(* C12: start_command and help_command.                                    *)

\* C12: a /start or /help update makes exactly one send attempt, a reply
\* without buttons, and whatever the transport answers no exception leaves
\* the handler.
C12_StartAndHelpAlwaysSucceed ==
    \A i \in Slots :
        LET ev == events[i] IN
        (ev.cmd \in { "start", "help" } /\ ev.hasMessage) =>
            /\ ev.raised = {}
            /\ Len(ev.attempts) <= 1
            /\ Ended(ev) =>
                  /\ Len(ev.attempts) = 1
                  /\ ev.attempts[1].keyboard = << >>

-----------------------------------------------------------------------------
(* C13: the process keeps running.                                         *)

\* What the event loop does for the update in slot i: the callbacks that
\* handle it and the dispatcher's dropping of it.  No reply_text call waits
\* for ever: it is accepted, refused or it fails.
Handle(i) ==
    \/ mines_command_try(i)
    \/ mines_command_fallback(i)
    \/ mines_command_text(i)
    \/ mines_command_unexpected(i)
    \/ mines_simple_command_try(i)
    \/ mines_simple_command_text(i)
    \/ start_command(i)
    \/ help_command(i)
    \/ error_handler(i)
    \/ Discard(i)

\* The event loop runs every callback that can run.
SpecLive == Spec /\ \A i \in Slots : WF_vars(Handle(i))

\* C13: once running, the process runs for ever, whatever the updates and
\* the transport's answers; the handling of every update taken ends; and an
\* update whose handling has ended is dropped, which lets the dispatcher
\* take the next one.
C13_DispatcherStaysRunning ==
    /\ [](phase = "running" => [](phase = "running" /\ exitStatus = 0))
    /\ \A i \in Slots : (events[i].pc # "idle") ~> (events[i].pc = "done")
    /\ \A i \in Slots : (events[i].pc = "done") ~> (events[i].pc = "idle")
    /\ [](\A i \in Slots :
            (phase = "running" /\ received < MaxEvents
               /\ \A j \in Slots : events[j].pc = "idle")
            => ENABLED (Receive(1) \/ DispatchFault(1)))

\* The last update of the run has been handled to its end although an
\* exception left its handler and the apology of error_handler failed too.
C13_Witness ==
    /\ phase = "running"
    /\ received = MaxEvents
    /\ \E i \in Slots :
          LET ev == events[i] IN
          /\ Ended(ev)
          /\ ev.raised # {} /\ ev.raised # { "dispatcher" }
          /\ Len(ev.attempts) >= 1
          /\ \A k \in DOMAIN ev.attempts : Failed(ev.attempts[k])

-----------------------------------------------------------------------------
(* C14: the delivered two-row reply ends the handling.                     *)

\* C14: when the transport accepts the first attempt of a /mines update, no
\* further send attempt is made for that update, with or without an
\* effective user to log.
C14_NoAttemptAfterDeliveredRichReply ==
    \A i \in Slots :
        LET ev == events[i] IN
        (/\ RichEvent(ev)
         /\ Len(ev.attempts) >= 1 /\ ev.attempts[1].outcome = "ok")
        => Len(ev.attempts) = 1

-----------------------------------------------------------------------------
(* C16: what the log records of caught failures carry.                     *)

\* The fixed part of the message names the command.
NamesCommand(rec) ==
    rec.msg \in { "BadRequest error in mines_command",
                  "Unexpected error in mines_command",
                  "Error in mines_simple_command",
                  "Mines command executed for user",
                  "Mines simple command executed for user" }

\* The log records that mines_command and mines_simple_command write in
\* their except clauses.
IsCaughtFailureRecord(rec) ==
    /\ rec.level = "error"
    /\ rec.msg \in { "BadRequest error in mines_command",
                     "Fallback also failed",
                     "Unexpected error in mines_command",
                     "Error in mines_simple_command" }

\* C16: every failure caught inside mines_command or mines_simple_command
\* leaves a log record with the command name and the user identifier.
C16_CaughtFailuresLoggedWithCommandAndUser ==
    \A i \in Slots :
        LET ev == events[i] IN
        ev.cmd \in { "mines", "mines_simple" } =>
            /\ \A k \in DOMAIN ev.log :
                  IsCaughtFailureRecord(ev.log[k]) =>
                      /\ NamesCommand(ev.log[k])
                      /\ "user_id" \in ev.log[k].fields
            /\ ev.pc \in { "mines:except BadRequest", "mines:except fallback_error",
                           "mines:except Exception", "mines_simple:except Exception" }
                  => /\ ev.log # << >>
                     /\ IsCaughtFailureRecord(ev.log[Len(ev.log)])

-----------------------------------------------------------------------------
(* C15: the callbacks share nothing.                                       *)

\* The update of slot i as the dispatcher took it, before any callback ran.
AsTaken(ev) ==
    [IdleEvent EXCEPT !.cmd = ev.cmd, !.isUpdate = ev.isUpdate,
                      !.hasMessage = ev.hasMessage, !.hasUser = ev.hasUser,
                      !.pc = IF ev.cmd = "" THEN "dispatcher:error"
                             ELSE EntryPoint(ev.cmd),
                      !.raised = IF ev.cmd = "" THEN { "dispatcher" } ELSE {}]

\* One step of the handling of an update on its own: the callback at which
\* it stands runs up to its reply_text call, which ends in o.
StepAlone(ev, o) ==
    CASE ev.pc = "mines:try"                     -> mines_try(ev, o)
      [] ev.pc = "mines:except BadRequest"       -> mines_fallback(ev, o)
      [] ev.pc = "mines:except fallback_error"   -> mines_text(ev, o)
      [] ev.pc = "mines:except Exception"        -> mines_unexpected(ev, o)
      [] ev.pc = "mines_simple:try"              -> mines_simple_try(ev, o)
      [] ev.pc = "mines_simple:except Exception" -> mines_simple_text(ev, o)
      [] ev.pc = "start"                         -> start_reply(ev, o)
      [] ev.pc = "help"                          -> help_reply(ev, o)
      [] ev.pc = "dispatcher:error" ->
            IF HasMessage(ev) THEN error_reply(ev, o) ELSE error_logged(ev)
      [] OTHER -> ev

\* The handling of an update on its own, the transport answering its send
\* attempts with outs, one after the other.
RECURSIVE HandledAlone(_, _)
HandledAlone(ev, outs) ==
    IF outs = << >> \/ ev.pc \in { "idle", "done" }
    THEN ev
    ELSE HandledAlone(StepAlone(ev, Head(outs)), Tail(outs))

OutcomesOf(ev) == [k \in DOMAIN ev.attempts |-> ev.attempts[k].outcome]

\* C15: while two updates are handled at once, a step of a callback changes
\* the update it handles and nothing else (not the token, the URL or any
\* other state of the process, and not the other update), and the send
\* attempts made for an update are those of its handling on its own with the
\* same answers of the transport.
C15_HandlersShareNothing ==
    /\ [][phase = "running" =>
             /\ process' = process
             /\ \A i, j \in Slots :
                   (i # j /\ events'[i] # events[i]) => events'[j] = events[j]]_vars
    /\ [](\A i \in Slots :
             (events[i].pc # "idle" /\ events[i].hasMessage) =>
                 LET alone == HandledAlone(AsTaken(events[i]), OutcomesOf(events[i]))
                 IN  /\ alone.attempts = events[i].attempts
                     /\ alone.pc = events[i].pc
                     /\ alone.raised = events[i].raised)

\* Two updates in hand at once, both with send attempts made, the first
\* taken being the further ahead.
C15_Witness ==
    /\ events[1].pc # "idle" /\ events[2].pc # "idle"
    /\ events[1].cmd \in { "mines", "mines_simple" }
    /\ events[2].cmd \in { "mines", "mines_simple" }
    /\ Len(events[1].attempts) >= 2
    /\ Len(events[2].attempts) >= 1
    /\ ~Ended(events[1]) /\ ~Ended(events[2])

-----------------------------------------------------------------------------
(* C17 - C19: the replies that follow a failure.                           *)

ApologyTexts ==
    { "An unexpected error occurred. Please try again later.",
      "Sorry, an error occurred while processing your request. Please try again later." }

\* An attempt that follows a failure: any attempt but the first of an
\* update, and every attempt of error_handler.
FollowsFailure(ev, k) == k > 1 \/ ev.attempts[k].by = "error_handler"

\* C17: a reply without buttons that is attempted after a failure is one of
\* the two fixed apologies, with nothing formatted into it, or the fixed
\* text with the configured URL formatted into it; no reply at all has
\* anything else formatted into it (the caught error, a trace, a code).
C17_FailureRepliesAreFixedTexts ==
    \A i \in Slots :
        LET ev == events[i] IN
        \A k \in DOMAIN ev.attempts :
            LET a == ev.attempts[k] IN
            /\ a.embedded \in { "", WEBAPP_URL }
            /\ (FollowsFailure(ev, k) /\ a.keyboard = << >>) =>
                  \/ a.text \in ApologyTexts /\ a.embedded = ""
                  \/ a.text = "open-the-calculator-at" /\ a.embedded = WEBAPP_URL

\* Both apologies have been attempted for one update: the one of
\* mines_command, which failed, then the one of error_handler.
C17_Witness ==
    \E i \in Slots :
        LET ev == events[i] IN
        /\ Ended(ev)
        /\ Len(ev.attempts) = 3
        /\ ev.attempts[2].text = "An unexpected error occurred. Please try again later."
        /\ Failed(ev.attempts[2])
        /\ ev.attempts[3].by = "error_handler"

\* C18: within one update a web-app button is sent only in the first
\* attempt of mines_command; every later attempt has at most one row of
\* buttons; and once a reply without buttons has been attempted no reply
\* with buttons is.
C18_ChainOnlyDeEscalates ==
    \A i \in Slots :
        LET ev == events[i] IN
        \A k \in DOMAIN ev.attempts :
            /\ HasWebAppButton(ev.attempts[k]) =>
                  /\ k = 1
                  /\ ev.cmd = "mines"
                  /\ ev.attempts[k].by = "mines_command"
            /\ k > 1 =>
                  /\ Len(ev.attempts[k].keyboard) <= 1
                  /\ ~HasWebAppButton(ev.attempts[k])
                  /\ Len(ev.attempts[k].keyboard) <= Len(ev.attempts[k - 1].keyboard)
            /\ \A l \in DOMAIN ev.attempts :
                  (k < l /\ ev.attempts[k].keyboard = << >>) =>
                      ev.attempts[l].keyboard = << >>

\* A /mines update that went down every tier: two rows, one row, no button,
\* and the apology of error_handler.
C18_Witness ==
    \E i \in Slots :
        LET ev == events[i] IN
        /\ RichEvent(ev) /\ Ended(ev)
        /\ Len(ev.attempts) = 4
        /\ Len(ev.attempts[1].keyboard) = 2
        /\ Len(ev.attempts[2].keyboard) = 1
        /\ Len(ev.attempts[3].keyboard) = 0

\* A /mines_simple update that carried a message.
SimpleEvent(ev) == ev.cmd = "mines_simple" /\ ev.hasMessage

\* C19: mines_simple_command makes at most two send attempts; the first is
\* the single link row; it makes the second exactly when something in its
\* try block failed (the first attempt, with any error, or the logging of
\* the user id); the second is the reply without buttons that has the
\* configured URL in its text, and its failure leaves the handler.
C19_SimpleCommandTwoStepChain ==
    \A i \in Slots :
        LET ev  == events[i]
            own == AttemptsBy(ev, "mines_simple_command")
        IN
        SimpleEvent(ev) =>
            /\ Len(own) <= 2
            /\ ev.pc # "mines_simple:try" =>
                  /\ Len(own) >= 1
                  /\ own[1] = ev.attempts[1]
                  /\ IsLinkOnly(own[1])
            /\ ev.pc \notin { "mines_simple:try", "mines_simple:except Exception" } =>
                  (Len(own) = 2 <=> (Failed(own[1]) \/ ~ev.hasUser))
            /\ Len(own) = 2 =>
                  /\ own[2] = ev.attempts[2]
                  /\ IsUrlText(own[2])
                  /\ Failed(own[2]) <=> "mines_simple_command" \in ev.raised
            /\ Len(own) < 2 => ev.raised = {}

\* A /mines_simple update whose link row was delivered and whose second
\* attempt, made because the user id could not be logged, failed.
C19_Witness ==
    \E i \in Slots :
        LET ev  == events[i]
            own == AttemptsBy(ev, "mines_simple_command")
        IN
        /\ SimpleEvent(ev) /\ Ended(ev)
        /\ Len(own) = 2
        /\ own[1].outcome = "ok"
        /\ Failed(own[2])

====
